---- MODULE Spec2Model ----
(***************************************************************************)
(* A model of pvmismatch/pvmismatch_lib/pvmodule.py: the PVmodule class    *)
(* (construction, setSuns, calcMod) and the cell-position presets          *)
(* (serpentine, zip_flat_meshgrid, STD96, TCT96).                          *)
(*                                                                         *)
(* Floating point quantities are integers in fixed units (irradiance in    *)
(* levels, currents and voltages in integer steps); divisions round down.  *)
(* Python sequences are 1-based TLA+ sequences; a Python index c is the    *)
(* position PyPos(c, n).                                                    *)
(***************************************************************************)
EXTENDS Integers, Sequences, FiniteSets, TLC

(* ------------------------------ bounds -------------------------------- *)
MaxCells == 2          \* numberCells ranges over 1..MaxCells
MaxSubStr == 2         \* explicit subStrCells have at most MaxSubStr entries
MaxGrid == 3           \* serpentine grids up to MaxGrid x MaxGrid

Suns == {0, 1}         \* irradiance levels: a dark cell, a cell in full sun
CellCounts == 1..MaxCells

(* ------------------------- sequence helpers --------------------------- *)
RECURSIVE SumSeq(_)
SumSeq(s) == IF s = <<>> THEN 0 ELSE s[1] + SumSeq(Tail(s))

SeqsUpTo(S, m) == UNION {[1..k -> S] : k \in 0..m}

MaxOf(S) == CHOOSE x \in S : \A y \in S : y <= x
MinOf(S) == CHOOSE x \in S : \A y \in S : x <= y
Range(s) == {s[i] : i \in DOMAIN s}

\* the function f on 1..n as a sequence whose entries are evaluated once
Array(f) == f \o <<>>

\* np.cumsum
cumsum(s) == Array([k \in 1..Len(s) |-> SumSeq(SubSeq(s, 1, k))])

\* np.flipud of a one-dimensional array
flipud(s) == Array([k \in 1..Len(s) |-> s[Len(s) + 1 - k]])

\* Python range(a, b) as a sequence
range(a, b) == Array([k \in 1..(IF b > a THEN b - a ELSE 0) |-> a + k - 1])

\* Python/numpy indexing of an axis of length n by index c (negative wraps);
\* 0 stands for IndexError.
PyPos(c, n) == IF c >= 0 /\ c < n THEN c + 1
               ELSE IF c < 0 /\ c >= 0 - n THEN c + n + 1
               ELSE 0

(* ---------------- pvconstants / pvcell (not in this file) ------------- *)
npts == 3              \* pvconst.npts: points of each branch of the axis
Isc0 == 4              \* pvconst.Isc0
Irbd == 4              \* extra current a cell carries at VRBD
Voc0 == 2              \* open circuit voltage per irradiance level
VRBD == 0 - 4          \* pvconst.VRBD
Vbypass == 0 - 1       \* pvconst.Vbypass
PtsScale == npts - 1
Imod_pts == [k \in 1..npts |-> k - 1]         \* pvconst.Imod_pts * PtsScale
Imod_negpts == [k \in 1..npts |-> npts - k]   \* pvconst.Imod_negpts * PtsScale
MODSIZES == <<96>>
SUBSTRSIZES == <<(<<32, 32, 32>>)>>

\* MODSIZES.index(n), 0 when absent
ModIndex(n) == IF \E i \in DOMAIN MODSIZES : MODSIZES[i] = n
               THEN CHOOSE i \in DOMAIN MODSIZES : MODSIZES[i] = n ELSE 0

\* one cell's curve for irradiance e, rows in increasing voltage
CellV(e) == <<VRBD, 0, e * Voc0, e * Voc0 + 1>>
CellI(e) == <<e * Isc0 + Irbd, e * Isc0, 0, 0 - e>>

calcVoc(Ee) == [c \in 1..Len(Ee) |-> Ee[c] * Voc0]

calcCell(Ee) ==
  [Icell |-> Array([c \in 1..Len(Ee) |-> CellI(Ee[c])]),
   Vcell |-> Array([c \in 1..Len(Ee) |-> CellV(Ee[c])]),
   Pcell |-> Array([c \in 1..Len(Ee) |->
                Array([k \in 1..4 |-> CellI(Ee[c])[k] * CellV(Ee[c])[k]])])]

\* np.interp: piecewise linear, constant outside [xp[1], xp[Len(xp)]]
interp(x, xp, fp) ==
  LET m == Len(xp) IN
  IF x < xp[1] THEN fp[1]
  ELSE IF x >= xp[m] THEN fp[m]
  ELSE LET i == CHOOSE i \in 1..(m - 1) : xp[i] <= x /\ x < xp[i + 1]
       IN fp[i] + ((x - xp[i]) * (fp[i + 1] - fp[i])) \div (xp[i + 1] - xp[i])

npinterpx(x, xp, fp) == interp(x, xp, fp)

(* ------------------------------ calcMod ------------------------------- *)
\* lines 129-130
start(subStrCells) ==
  Array([k \in 1..Len(subStrCells) |-> cumsum(subStrCells)[k] - subStrCells[k]])
stop(subStrCells) == cumsum(subStrCells)

\* lines 131-132: the cell indices the loops visit, per substring
substrCells(subStrCells, numSubStr) ==
  Array([k \in 1..numSubStr |->
           range(start(subStrCells)[k], stop(subStrCells)[k])])

\* lines 119-127: the current axis
IatVrbd(Icell, Vcell) ==
  [c \in 1..Len(Icell) |-> interp(VRBD, Vcell[c], Icell[c])]

calcImod(Ee, Icell, Vcell) ==
  LET Isc == (SumSeq(Ee) * Isc0) \div Len(Ee)
      Imax == [k \in 1..npts |->
                 ((MaxOf(Range(IatVrbd(Icell, Vcell))) - Isc) * Imod_pts[k])
                    \div PtsScale + Isc]
      Imin0 == MinOf(UNION {Range(Icell[c]) : c \in 1..Len(Icell)})
      Imin == IF Imin0 < 0 THEN Imin0 ELSE 0
      Ineg == [k \in 1..npts |->
                 ((Imin - Isc) * Imod_negpts[k]) \div PtsScale + Isc]
  IN Ineg \o Imax

\* lines 128, 131-135: the summed voltages before the clamp, one row per
\* axis point and one column per substring
sumVsubstr(Imod, Icell, Vcell, subStrCells, numSubStr) ==
  LET cells == substrCells(subStrCells, numSubStr)
      n == Len(Icell)
      xp == Array([c \in 1..n |-> flipud(Icell[c])])
      fp == Array([c \in 1..n |-> flipud(Vcell[c])])
      V == Array([p \in 1..(2 * npts) |->
                    Array([c \in 1..n |-> npinterpx(Imod[p], xp[c], fp[c])])])
  IN Array([p \in 1..(2 * npts) |->
        Array([s \in 1..numSubStr |->
           SumSeq([j \in 1..Len(cells[s]) |->
                     V[p][PyPos(cells[s][j], n)]])])])

\* lines 136-137
bypass_wrong(v) == IF v > Vbypass THEN Vbypass ELSE v
bypass(v) == IF v < Vbypass THEN Vbypass ELSE v

\* a column index outside the cell arrays raises IndexError (lines 133-134)
calcModRaises(ncols, subStrCells, numSubStr) ==
  LET cells == substrCells(subStrCells, numSubStr) IN
  \E s \in 1..numSubStr :
     \E j \in 1..Len(cells[s]) : PyPos(cells[s][j], ncols) = 0

calcMod(self) ==
  LET Imod == calcImod(self.Ee, self.Icell, self.Vcell)
      Vsum == sumVsubstr(Imod, self.Icell, self.Vcell,
                         self.subStrCells, self.numSubStr)
      Vsubstr == Array([p \in 1..(2 * npts) |->
                    Array([s \in 1..self.numSubStr |-> bypass(Vsum[p][s])])])
      Vmod == Array([p \in 1..(2 * npts) |-> SumSeq(Vsubstr[p])])
      Pmod == Array([p \in 1..(2 * npts) |-> Imod[p] * Vmod[p]])
  IN [Imod |-> Imod, Vmod |-> Vmod, Pmod |-> Pmod, Vsubstr |-> Vsubstr]

(* ------------------------------ setSuns ------------------------------- *)
\* An irradiance argument is a scalar or an array;  cells is None or a
\* sequence of cell indices.
ScalarEe(v) == [scalar |-> TRUE, val |-> v, arr |-> <<>>]
ArrayEe(a) == [scalar |-> FALSE, val |-> 0, arr |-> a]
NoCells == [none |-> TRUE, idx |-> <<>>]
Cells(idx) == [none |-> FALSE, idx |-> idx]

\* a[0, idx] = vals (a repeated index keeps the last value)
AssignAt(a, idx, vals) ==
  [i \in 1..Len(a) |->
     IF \E k \in 1..Len(idx) : idx[k] + 1 = i
     THEN vals[MaxOf({k \in 1..Len(idx) : idx[k] + 1 = i})]
     ELSE a[i]]

\* lines 90-104: the stored irradiance when the branch is left, and whether
\* it is left by the exception
setSuns_Ee_partialwrite(selfEe, numberCells, Ee, cells) ==
  IF cells.none
  THEN IF Ee.scalar
       THEN [raised |-> FALSE, Ee |-> [i \in 1..numberCells |-> Ee.val]]
       ELSE IF Len(Ee.arr) = numberCells
       THEN [raised |-> FALSE, Ee |-> Ee.arr]
       ELSE [raised |-> TRUE, Ee |-> selfEe]
  ELSE LET Nsuns == Len(cells.idx)
           m == IF Len(Ee.arr) < Nsuns THEN Len(Ee.arr) ELSE Nsuns
       IN IF Ee.scalar
          THEN [raised |-> FALSE,
                Ee |-> AssignAt(selfEe, cells.idx, [k \in 1..Nsuns |-> Ee.val])]
          ELSE [raised |-> Len(Ee.arr) # Nsuns,
                Ee |-> AssignAt(selfEe, SubSeq(cells.idx, 1, m),
                                SubSeq(Ee.arr, 1, m))]

setSuns_Ee_nocheck(selfEe, numberCells, Ee, cells) ==
  IF cells.none
  THEN IF Ee.scalar
       THEN [raised |-> FALSE, Ee |-> [i \in 1..numberCells |-> Ee.val]]
       ELSE [raised |-> FALSE, Ee |-> Ee.arr]
  ELSE LET Nsuns == Len(cells.idx)
       IN IF Ee.scalar
          THEN [raised |-> FALSE,
                Ee |-> AssignAt(selfEe, cells.idx, [k \in 1..Nsuns |-> Ee.val])]
          ELSE IF Len(Ee.arr) = Nsuns
          THEN [raised |-> FALSE, Ee |-> AssignAt(selfEe, cells.idx, Ee.arr)]
          ELSE [raised |-> TRUE, Ee |-> selfEe]

setSuns_Ee(selfEe, numberCells, Ee, cells) ==
  IF cells.none
  THEN IF Ee.scalar
       THEN [raised |-> FALSE, Ee |-> [i \in 1..numberCells |-> Ee.val]]
       ELSE IF Len(Ee.arr) = numberCells
       THEN [raised |-> FALSE, Ee |-> Ee.arr]
       ELSE [raised |-> TRUE, Ee |-> selfEe]
  ELSE LET Nsuns == Len(cells.idx)
       IN IF Ee.scalar
          THEN [raised |-> FALSE,
                Ee |-> AssignAt(selfEe, cells.idx, [k \in 1..Nsuns |-> Ee.val])]
          ELSE IF Len(Ee.arr) = Nsuns
          THEN [raised |-> FALSE, Ee |-> AssignAt(selfEe, cells.idx, Ee.arr)]
          ELSE [raised |-> TRUE, Ee |-> selfEe]

\* lines 105-107: Voc, the cell curves and the module curves, in this order
setSuns_calc_firstcell(self) ==
  LET cell == calcCell([c \in 1..Len(self.Ee) |-> self.Ee[1]])
      s1 == [self EXCEPT !.Voc = calcVoc(self.Ee), !.Icell = cell.Icell,
                         !.Vcell = cell.Vcell, !.Pcell = cell.Pcell]
      mod == calcMod(s1)
  IN [s1 EXCEPT !.Imod = mod.Imod, !.Vmod = mod.Vmod, !.Pmod = mod.Pmod,
                !.Vsubstr = mod.Vsubstr]

setSuns_calc(self) ==
  LET cell == calcCell(self.Ee)
      s1 == [self EXCEPT !.Voc = calcVoc(self.Ee), !.Icell = cell.Icell,
                         !.Vcell = cell.Vcell, !.Pcell = cell.Pcell]
      mod == calcMod(s1)
  IN [s1 EXCEPT !.Imod = mod.Imod, !.Vmod = mod.Vmod, !.Pmod = mod.Pmod,
                !.Vsubstr = mod.Vsubstr]

\* lines 79-107.  err: "" (returned), "Ee" (line 96 or 104), "Index"
\* (IndexError out of calcMod, after the cell curves were stored)
setSuns(self, Ee, cells) ==
  LET r == setSuns_Ee(self.Ee, self.numberCells, Ee, cells)
      s0 == [self EXCEPT !.Ee = r.Ee]
      cell == calcCell(s0.Ee)
  IN IF r.raised THEN [err |-> "Ee", self |-> s0]
     ELSE IF calcModRaises(Len(s0.Ee), s0.subStrCells, s0.numSubStr)
     THEN [err |-> "Index",
           self |-> [s0 EXCEPT !.Voc = calcVoc(s0.Ee), !.Icell = cell.Icell,
                               !.Vcell = cell.Vcell, !.Pcell = cell.Pcell]]
     ELSE [err |-> "", self |-> setSuns_calc(s0)]

(* ----------------------------- __init__ ------------------------------- *)
\* The subStrCells argument: None, or a sequence.
NoSubStr == [none |-> TRUE, seq |-> <<>>]
SubStr(seq) == [none |-> FALSE, seq |-> seq]

\* lines 62-67
chooseSubStrCells(numberCells, subStrCells) ==
  IF ~subStrCells.none /\ subStrCells.seq # <<>> THEN subStrCells.seq
  ELSE IF ModIndex(numberCells) # 0 THEN SUBSTRSIZES[ModIndex(numberCells)]
  ELSE <<numberCells>>

\* the fields before construction (lines 73-75 set the curves to 0)
NoModule ==
  [numberCells |-> 0, subStrCells |-> <<>>, numSubStr |-> 0, Ee |-> <<>>,
   Voc |-> <<>>, Icell |-> <<>>, Vcell |-> <<>>, Pcell |-> <<>>,
   Imod |-> <<>>, Vmod |-> <<>>, Pmod |-> <<>>, Vsubstr |-> <<>>]

\* lines 54-77.  err: "" (constructed), "Invalid" (line 70), or setSuns' err
init(numberCells, subStrCells, Ee) ==
  LET sub == chooseSubStrCells(numberCells, subStrCells)
      s0 == [NoModule EXCEPT !.numberCells = numberCells, !.subStrCells = sub,
                             !.numSubStr = Len(sub)]
  IN IF SumSeq(sub) # numberCells THEN [err |-> "Invalid", self |-> s0]
     ELSE setSuns(s0, Ee, NoCells)

(* ------------------------ cell position presets ----------------------- *)
None == 0 - 1          \* Python's None in a field that else holds a position

\* np.meshgrid(np.arange(nrows), np.arange(ncols)): two matrices of ncols
\* rows and nrows columns, x[i][j] = j and y[i][j] = i (0-based)
meshgrid(nrows, ncols) ==
  [x |-> Array([i \in 1..ncols |-> Array([j \in 1..nrows |-> j - 1])]),
   y |-> Array([i \in 1..ncols |-> Array([j \in 1..nrows |-> i - 1])])]

\* m.flat: the entries of a matrix, row after row
flat(m) ==
  LET w == IF Len(m) = 0 THEN 0 ELSE Len(m[1])
  IN Array([n \in 1..(Len(m) * w) |-> m[((n - 1) \div w) + 1][((n - 1) % w) + 1]])

zip(a, b) == Array([n \in 1..Len(a) |-> <<a[n], b[n]>>])

\* lines 15-17
zip_flat_meshgrid(nrows, ncols) ==
  zip(flat(meshgrid(nrows, ncols).x), flat(meshgrid(nrows, ncols).y))

\* lines 20-23: x[1::2] = np.fliplr(x[1::2]) reverses every second row of
\* the matrix x, starting with its row 1 (0-based)
serpentine_noflip(nrows, ncols) ==
  zip(flat(meshgrid(nrows, ncols).x), flat(meshgrid(nrows, ncols).y))

serpentine(nrows, ncols) ==
  LET g == meshgrid(nrows, ncols)
      x == Array([i \in 1..ncols |->
                    IF (i - 1) % 2 = 1 THEN flipud(g.x[i]) ELSE g.x[i]])
  IN zip(flat(x), flat(g.y))

\* lines 28-30: the record of STD96 for index n and position (r, c)
STDrecord(n, r, c) ==
  [row |-> r, col |-> c,
   series |-> IF n < 96 THEN n + 1 ELSE None, parallel |-> None,
   substring |-> (n + 24) \div 48]

\* lines 33-35: the record of TCT96 for position (r, c)
TCTrecord(n, r, c) ==
  [row |-> r, col |-> c,
   series |-> IF r < 11 THEN c * 12 + r + 1 ELSE None,
   parallel |-> IF c < 7 THEN (c + 1) * 12 + r ELSE None,
   substring |-> r \div 4]

\* the positions a preset of the given pattern enumerates
positions(pattern, nrows, ncols) ==
  IF pattern = "STD" THEN serpentine(nrows, ncols)
  ELSE zip_flat_meshgrid(nrows, ncols)

(* --------------------------- the state machine ------------------------ *)
VARIABLES
  status,     \* "none" before __init__, "ok" once constructed, "failed"
  self,       \* the fields of the PVmodule object
  callerArr,  \* the caller's ndarray that self.Ee is a view of, else <<>>
  shared,     \* self.Ee is a view of the caller's ndarray (np.reshape, line 94)
  last,       \* the last call: op, err, partial, and __init__'s arguments
  topo        \* the cell-position state (SpecTopo)

vars == <<status, self, callerArr, shared, last, topo>>

NoArgs == [numberCells |-> 0, subStrCells |-> NoSubStr]
Call(op, err, partial) ==
  [op |-> op, err |-> err, partial |-> partial, args |-> NoArgs]

\* the subStrCells arguments tried for a module of n cells
SubStrArgs(n) ==
  {NoSubStr} \cup {SubStr(q) : q \in SeqsUpTo((0 - 1)..(n + 1), MaxSubStr)}

\* the arrays and cell subsets tried for a module of n cells
EeArrays(n) == SeqsUpTo(Suns, n + 1)
EeSubArrays(n) == SeqsUpTo(Suns, n)
CellSeqs(n) ==
  {c \in SeqsUpTo(0..(n - 1), n) :
     \A i, j \in 1..Len(c) : i # j => c[i] # c[j]}

\* the partitions of n cells into substrings of at least one cell
Partitions(n) == {q \in SeqsUpTo(1..n, n) : SumSeq(q) = n}

\* topo: phase "idle"; "build" while the list comprehension of a preset
\* runs (cell_pos is the list so far); "calcMod" while the loops of lines
\* 131-135 run over a module built with the finished preset (visited lists
\* the column read and the substring column added to, visit by visit).
TopoIdle ==
  [phase |-> "idle", pattern |-> "", nrows |-> 0, ncols |-> 0,
   cell_pos |-> <<>>, numberCells |-> 0, subStrCells |-> <<>>,
   numSubStr |-> 0, substr |-> 0, j |-> 0, visited |-> <<>>]

\* A module as __init__ leaves it, for every accepted argument.
Init ==
  \E n \in CellCounts :
  \E sub \in {NoSubStr} \cup {SubStr(q) : q \in Partitions(n)} :
  \E e \in Suns :
     LET r == init(n, sub, ScalarEe(e)) IN
     /\ r.err = ""
     /\ status = "ok"
     /\ self = r.self
     /\ callerArr = <<>>
     /\ shared = FALSE
     /\ last = [Call("init", "", FALSE) EXCEPT
                  !.args = [numberCells |-> n, subStrCells |-> sub]]
     /\ topo = TopoIdle

\* setSuns(Ee) with a scalar or a list: self.Ee is a new array (lines 92, 94)
SetSunsFull(Ee) ==
  \E r \in {setSuns(self, Ee, NoCells)} :
  /\ status = "ok"
  /\ self' = r.self
  /\ shared' = IF r.err = "" THEN FALSE ELSE shared
  /\ callerArr' = IF r.err = "" THEN <<>> ELSE callerArr
  /\ last' = Call("setSuns", r.err, FALSE)
  /\ UNCHANGED <<status, topo>>

\* setSuns(a) with an ndarray a of the caller: np.reshape returns a view of
\* a, which line 94 stores
SetSunsView(a) ==
  \E r \in {setSuns(self, ArrayEe(a), NoCells)} :
  /\ status = "ok"
  /\ self' = r.self
  /\ shared' = IF r.err = "" THEN TRUE ELSE shared
  /\ callerArr' = IF r.err = "" THEN a ELSE callerArr
  /\ last' = Call("setSuns", r.err, FALSE)
  /\ UNCHANGED <<status, topo>>

\* setSuns(Ee, cells): lines 100 and 102 write into the array self.Ee names
SetSunsPartial(Ee, cells) ==
  \E r \in {setSuns(self, Ee, cells)} :
  /\ status = "ok"
  /\ self' = r.self
  /\ callerArr' = IF shared THEN r.self.Ee ELSE callerArr
  /\ last' = Call("setSuns", r.err, TRUE)
  /\ UNCHANGED <<status, shared, topo>>

\* the caller writes a[i] = v into its own ndarray
CallerWrite(i, v) ==
  /\ status = "ok"
  /\ shared
  /\ i \in 1..Len(callerArr)
  /\ callerArr' = [callerArr EXCEPT ![i] = v]
  /\ self' = [self EXCEPT !.Ee = callerArr']
  /\ last' = Call("write", "", FALSE)
  /\ UNCHANGED <<status, shared, topo>>

Next ==
  \/ \E e \in Suns : SetSunsFull(ScalarEe(e))
  \/ \E a \in EeArrays(self.numberCells) : SetSunsFull(ArrayEe(a))
  \/ \E a \in EeArrays(self.numberCells) : SetSunsView(a)
  \/ \E c \in CellSeqs(self.numberCells) :
        \E e \in Suns : SetSunsPartial(ScalarEe(e), Cells(c))
  \/ \E c \in CellSeqs(self.numberCells) :
        \E a \in EeSubArrays(self.numberCells) :
           SetSunsPartial(ArrayEe(a), Cells(c))
  \/ \E i \in 1..MaxCells : \E v \in Suns : CallerWrite(i, v)

Spec == Init /\ [][Next]_vars

(* --------------------------- construction ----------------------------- *)
InitCtor ==
  /\ status = "none"
  /\ self = NoModule
  /\ callerArr = <<>>
  /\ shared = FALSE
  /\ last = Call("", "", FALSE)
  /\ topo = TopoIdle

\* PVmodule(numberCells=n, subStrCells=sub, Ee=Ee); self holds the fields
\* as they are when __init__ is left
Construct(n, sub, Ee) ==
  \E r \in {init(n, sub, Ee)} :
  /\ status = "none"
  /\ status' = IF r.err = "" THEN "ok" ELSE "failed"
  /\ self' = r.self
  /\ last' = [Call("init", r.err, FALSE) EXCEPT
                !.args = [numberCells |-> n, subStrCells |-> sub]]
  /\ UNCHANGED <<callerArr, shared, topo>>

NextCtor ==
  \/ \E n \in CellCounts : \E sub \in SubStrArgs(n) : \E e \in Suns :
        Construct(n, sub, ScalarEe(e))
  \/ \E n \in CellCounts : \E sub \in SubStrArgs(n) : \E a \in EeArrays(n) :
        Construct(n, sub, ArrayEe(a))

SpecCtor == InitCtor /\ [][NextCtor]_vars

(* --------------------------- cell positions --------------------------- *)
Grids == ((1..MaxGrid) \X (1..MaxGrid)) \cup {<<12, 8>>}

InitTopo ==
  /\ status = "none"
  /\ self = NoModule
  /\ callerArr = <<>>
  /\ shared = FALSE
  /\ last = Call("", "", FALSE)
  /\ \E g \in Grids : \E pat \in {"STD", "TCT"} :
        topo = [TopoIdle EXCEPT !.phase = "build", !.pattern = pat,
                                !.nrows = g[1], !.ncols = g[2]]

\* one step of the list comprehension (lines 27-31, 32-36): the record for
\* the next (r, c) of the enumeration
Enumerate ==
  LET n == Len(topo.cell_pos)
      rc == positions(topo.pattern, topo.nrows, topo.ncols)[n + 1]
  IN /\ topo.phase = "build"
     /\ n < topo.nrows * topo.ncols
     /\ topo' = [topo EXCEPT !.cell_pos =
                   Append(@, IF topo.pattern = "STD"
                             THEN STDrecord(n, rc[1], rc[2])
                             ELSE TCTrecord(n, rc[1], rc[2]))]
     /\ UNCHANGED <<status, self, callerArr, shared, last>>

\* PVmodule(cell_pos=STD96 or TCT96, numberCells=96, subStrCells=sub), up
\* to the entry of calcMod's loops: lines 62-70 and 128-130
TopoConstruct(sub) ==
  LET n == Len(topo.cell_pos)
      part == chooseSubStrCells(n, sub)
  IN /\ topo.phase = "build"
     /\ topo.nrows = 12 /\ topo.ncols = 8 /\ n = 96
     /\ SumSeq(part) = n
     /\ topo' = [topo EXCEPT !.phase = "calcMod", !.numberCells = n,
                             !.subStrCells = part, !.numSubStr = Len(part),
                             !.substr = 0, !.j = 0]
     /\ UNCHANGED <<status, self, callerArr, shared, last>>

\* one pass of the inner loop (lines 132-135), or the step to the next
\* substring when the inner range is exhausted
CalcModCell ==
  LET cells == substrCells(topo.subStrCells, topo.numSubStr)[topo.substr + 1]
  IN /\ topo.phase = "calcMod"
     /\ topo.substr < topo.numSubStr
     /\ IF topo.j < Len(cells)
        THEN topo' = [topo EXCEPT
                        !.visited = Append(@, [cell |-> cells[topo.j + 1],
                                               substr |-> topo.substr]),
                        !.j = @ + 1]
        ELSE topo' = [topo EXCEPT !.substr = @ + 1, !.j = 0]
     /\ UNCHANGED <<status, self, callerArr, shared, last>>

NextTopo ==
  \/ Enumerate
  \/ \E sub \in {NoSubStr, SubStr(<<24, 48, 24>>), SubStr(<<48, 48>>)} :
        TopoConstruct(sub)
  \/ CalcModCell

SpecTopo == InitTopo /\ [][NextTopo]_vars

(* ------------------------------- claims ------------------------------- *)
\* the module curves of an object
Curves(m) == <<m.Imod, m.Vmod, m.Pmod, m.Vsubstr>>

\* C1 (as stated): an explicitly supplied subStrCells whose sum differs
\* from numberCells, the empty sequence included, makes construction fail
\* with the invalid-partition error; one whose sum is numberCells does not
\* raise that error.
C1_SumMismatchRejected ==
  (status # "none" /\ ~last.args.subStrCells.none) =>
     LET q == last.args.subStrCells.seq
         n == last.args.numberCells
     IN /\ SumSeq(q) # n => (status = "failed" /\ last.err = "Invalid")
        /\ SumSeq(q) = n => last.err # "Invalid"

\* C2: a setSuns call that raises for a value count that does not match
\* leaves the stored irradiance and Imod, Vmod, Pmod, Vsubstr as they were
\* before the call.
C2_FailedUpdateMutatesNothing ==
  [][(last'.op = "setSuns" /\ last'.err = "Ee") =>
        (self'.Ee = self.Ee /\ Curves(self') = Curves(self))]_vars

\* a partial update with too few or too many values has just failed on a
\* module of several cells
C2_Witness ==
  /\ last.op = "setSuns" /\ last.err = "Ee" /\ last.partial
  /\ self.numberCells > 1

C4_BypassClamp ==
  status = "ok" =>
     LET Vsum == sumVsubstr(self.Imod, self.Icell, self.Vcell,
                            self.subStrCells, self.numSubStr)
     IN \A p \in 1..(2 * npts) : \A s \in 1..self.numSubStr :
           /\ self.Vsubstr[p][s] >= Vbypass
           /\ Vsum[p][s] < Vbypass => self.Vsubstr[p][s] = Vbypass
           /\ Vsum[p][s] >= Vbypass => self.Vsubstr[p][s] = Vsum[p][s]

\* a module of two substrings where one entry is clamped and another one,
\* above Vbypass, is not
C4_Witness ==
  /\ status = "ok" /\ self.numSubStr > 1
  /\ LET Vsum == sumVsubstr(self.Imod, self.Icell, self.Vcell,
                            self.subStrCells, self.numSubStr)
     IN /\ \E p \in 1..(2 * npts) : \E s \in 1..self.numSubStr :
              Vsum[p][s] < Vbypass /\ self.Vsubstr[p][s] = Vbypass
        /\ \E p \in 1..(2 * npts) : \E s \in 1..self.numSubStr :
              Vsum[p][s] > Vbypass /\ self.Vsubstr[p][s] = Vsum[p][s]

\* C5 (as stated): a subStrCells with a zero or negative entry is rejected
\* at construction, so every substring of a constructed module has a
\* positive cell count.
C5_PositiveCellCounts ==
  /\ (status # "none" /\
      \E k \in 1..Len(last.args.subStrCells.seq) :
         last.args.subStrCells.seq[k] <= 0) => status = "failed"
  /\ status = "ok" => \A k \in 1..self.numSubStr : self.subStrCells[k] > 0

\* C6 (as stated): for a module built with the preset STD96 or TCT96, the
\* substring column calcMod adds a cell's voltage to is the substring of
\* that cell's record in the preset.
C6_TopologyIsMembership ==
  topo.phase = "calcMod" =>
     \A i \in 1..Len(topo.visited) :
        topo.cell_pos[PyPos(topo.visited[i].cell, topo.numberCells)].substring
           = topo.visited[i].substr

\* the position the traversal index n has in a serpentine that runs along
\* the rows first (the claim as stated) and along the columns first
RowFirst(n, nrows, ncols) ==
  LET r == n \div ncols
      j == n % ncols
  IN <<r, IF r % 2 = 1 THEN ncols - 1 - j ELSE j>>

ColFirst(n, nrows, ncols) ==
  LET c == n \div nrows
      i == n % nrows
  IN <<IF c % 2 = 1 THEN nrows - 1 - i ELSE i, c>>

\* every position of the grid is in exactly one record of a finished list
EachPositionOnce ==
  Len(topo.cell_pos) = topo.nrows * topo.ncols =>
     \A r \in 0..(topo.nrows - 1) : \A c \in 0..(topo.ncols - 1) :
        Cardinality({k \in 1..Len(topo.cell_pos) :
                       topo.cell_pos[k].row = r /\ topo.cell_pos[k].col = c}) = 1

C8_IrradianceLength ==
  status = "ok" => Len(self.Ee) = self.numberCells

\* a full update with an array of the wrong size has just failed
C8_Witness ==
  /\ status = "ok" /\ last.op = "setSuns" /\ last.err = "Ee" /\ ~last.partial
  /\ Len(self.Ee) = self.numberCells

\* C9 (as stated): for every accepted partition the runs calcMod visits lie
\* within 0..numberCells-1 and every cell's column is read exactly once, for
\* exactly one substring.
C9_RunsCoverCellsOnce ==
  status = "ok" =>
     LET cells == substrCells(self.subStrCells, self.numSubStr)
         n == self.numberCells
     IN /\ \A s \in 1..self.numSubStr : \A j \in 1..Len(cells[s]) :
              cells[s][j] \in 0..(n - 1)
        /\ \A c \in 1..n :
              Cardinality({sj \in UNION {{<<s, j>> : j \in 1..Len(cells[s])} :
                                           s \in 1..self.numSubStr} :
                             PyPos(cells[sj[1]][sj[2]], n) = c}) = 1

\* C10 (as stated): the stored irradiance changes only inside setSuns, so a
\* write of the caller to the array it passed to setSuns(Ee) does not change
\* it, and a partial update does not change the caller's array.
C10_IrradianceNotShared ==
  [][/\ last'.op = "write" => self'.Ee = self.Ee
     /\ (last'.op = "setSuns" /\ last'.partial /\ callerArr # <<>>)
           => callerArr' = callerArr]_vars

====
